---- MODULE Spec2Model ----
(***************************************************************************)
(* Verification model of XrayR's dispatcher (app/mydispatcher/default.go)  *)
(* and controller (Start, Close, nodeInfoMonitor, userInfoMonitor,         *)
(* compareUserList).                                                       *)
(*                                                                         *)
(* Spec        one inbound connection at a time goes through Dispatch,     *)
(*             getLink, the sniff task and routedDispatch, while the       *)
(*             inbound side writes bytes and the context may be cancelled. *)
(* SpecLink    connections from every source and under every statistics    *)
(*             policy against a Limiter that knows one user, no sniffing.  *)
(* SpecLimiter a stream of getLink calls of one user against the Limiter,  *)
(*             with time passing.                                          *)
(* SpecDiff    compareUserList applied to bounded pairs of user lists.     *)
(* SpecReader  a cachedReader used sequentially over a pipe that is being  *)
(*             written: Cache calls, then Read calls.                      *)
(* SpecCtl     the controller: Start, up to MaxTicks nodeInfoMonitor       *)
(*             ticks and Close, the remote API answering any node and      *)
(*             user list and any call failing.                             *)
(* SpecOverlap nodeInfoMonitor ticks with userInfoMonitor ticks running    *)
(*             in between their steps, after a Start without failure.      *)
(*                                                                         *)
(* Text is modelled as TLA+ strings, except where the code looks inside a  *)
(* string (strings.HasPrefix): there it is a sequence of characters.       *)
(***************************************************************************)
EXTENDS Integers, Sequences, FiniteSets, TLC

VARIABLES
    router,           \* d.router # nil
    ruleManager,      \* d.RuleManager: [rules: tag -> patterns, hits: Nat]
    limiter,          \* d.Limiter: the inbound record of InboundTag
    now,              \* the clock the Limiter reads
    inbound,          \* session.InboundFromContext(ctx): [Tag, User, Source]
    ctxDone,          \* ctx.Done() is closed
    destination,      \* the destination argument of Dispatch
    sniffingRequest,  \* content.SniffingRequest as copied on line 239
    ret,              \* what Dispatch returned: "none", "link", "error", "panic"
    uplink,           \* the pipe uplinkWriter -> uplinkReader: [data, state]
    downlink,         \* the pipe downlinkWriter -> downlinkReader: [state]
    writers,          \* wrappers put round the two link writers by getLink
    rejected,         \* GetUserBucket answered reject for this connection
    taskPc,           \* where the background task of the connection is
    tasks,            \* number of background tasks started for the connection
    cReader,          \* the cachedReader: [wrapped, cache]
    payload,          \* the scratch buffer of the sniff loop
    totalAttempt,     \* sniffer's totalAttempt
    calls,            \* calls made by the sniff loop: [cache, sniff, ctx]
    sniffed,          \* what sniffer returned: [result, err]
    target,           \* the destination variable of the task (ob.Target)
    routed,           \* what routedDispatch did
    written,          \* every byte the inbound side wrote to the uplink
    delivered,        \* every byte the outbound handler read, in read order
    admitted,         \* SpecLimiter: ip -> time of its last call answered reject=false
    old,              \* SpecDiff: first argument of compareUserList
    new,              \* SpecDiff: second argument of compareUserList
    diff,             \* SpecDiff: what compareUserList returned
    prevPayload,      \* SpecReader: the scratch buffer before the last Cache call
    readerPc,         \* SpecReader: "caching" until the first Read, then "reading"
    controller,       \* the Controller: [nodeInfo, userList, the two periodics]
    handlers,         \* the proxy engine: [inbounds: tag -> [exists, users], outbounds]
    inboundInfo,      \* the Limiter's records: tag -> [exists, users]
    monitor,          \* the running nodeInfoMonitor tick: its position and locals
    reporter,         \* the running userInfoMonitor tick: its position and locals
    history           \* what Start returned, the last fetched list, the last
                      \* completed reconciliation

connVars == <<inbound, ctxDone, destination, sniffingRequest, ret, uplink,
              downlink, writers, rejected, taskPc, tasks, cReader, payload,
              totalAttempt, calls, sniffed, target, routed, written, delivered>>
sharedVars == <<router, ruleManager, limiter, now>>
limVars == <<admitted>>
diffVars == <<old, new, diff>>
readerVars == <<prevPayload, readerPc>>
ctlVars == <<controller, handlers, inboundInfo, monitor, reporter, history>>
restVars == <<diffVars, readerVars, ctlVars>>
vars == <<sharedVars, connVars, limVars, restVars>>

----------------------------------------------------------------------------
(* Bounds *)

MaxData == 2         \* bytes the inbound side writes on one connection
BufSize == 2         \* buf.Size (8192 in xray-core), scaled down
NumIPs == 2          \* distinct source IPs
MaxDeviceLimit == 1  \* largest deviceLimit of the user
MaxClock == 2        \* clock values 0..MaxClock
MaxHits == 1         \* cap of the rule-hit counter
MaxUsers == 2        \* longest user list
MaxTicks == 2        \* nodeInfoMonitor ticks after Start

----------------------------------------------------------------------------
(* Values *)

NoValue == "nil"
NoDiff == [done |-> FALSE, deleted |-> {}, added |-> {}]
InboundTag == "V2ray_443"
Tags == {"", InboundTag}
Emails == {"", "a@x"}
IPs == 1..NumIPs
Bytes == {"T", "H", "d"}

Str_tls == <<"t", "l", "s">>
Str_http == <<"h", "t", "t", "p">>
Str_ht == <<"h", "t">>
Str_fakedns == <<"f", "a", "k", "e", "d", "n", "s">>

SniffedDomain == "www.example"
IPLiterals == {"1.2.3.4"}
DomainNames == {"ads.example", SniffedDomain}

\* net.ParseAddress: an IP literal becomes an IP address, anything else a domain.
ParseAddress(s) ==
    IF s \in IPLiterals THEN [family |-> "ip", value |-> s]
    ELSE [family |-> "domain", value |-> s]

Networks == {"unknown", "tcp", "udp"}
Destinations ==
    [Network : Networks,
     Address : {ParseAddress("1.2.3.4"), ParseAddress("ads.example")},
     Port : {443}]

\* net.Destination.IsValid
IsValid(dest) == dest.Network # "unknown"

Inbounds ==
    [Tag : Tags, User : {NoValue} \cup Emails, Source : IPs]

SniffingRequests ==
    {[Enabled |-> FALSE, OverrideDestinationForProtocol |-> <<>>,
      ExcludeForDomain |-> <<>>]}
    \cup [Enabled : {TRUE},
          OverrideDestinationForProtocol :
              {<<>>, <<Str_tls>>, <<Str_ht>>, <<Str_fakedns, Str_http>>},
          ExcludeForDomain : {<<>>, <<SniffedDomain>>}]

Policies == [UserUplink : BOOLEAN, UserDownlink : BOOLEAN]
NoStats == [UserUplink |-> FALSE, UserDownlink |-> FALSE]

----------------------------------------------------------------------------
(* RuleManager (common/rule) *)

\* RuleManager.Detect: the patterns of the tag are tried against the
\* destination; a pattern is the address it denies.
Detect(rm, tag, dest, email) ==
    dest.Address.value \in rm.rules[tag]

\* The rule manager after Detect: a match increments the hit counter.
DetectHit(rm, tag, dest, email) ==
    IF Detect(rm, tag, dest, email) THEN [rm EXCEPT !.hits = @ + 1] ELSE rm

----------------------------------------------------------------------------
(* Limiter (common/limiter) *)

IdleTTL == 1         \* idle time after which an online IP is evicted
NoTime == -1
LimitedUser == "a@x" \* the user the controller registered under InboundTag

\* limiter.New(): no inbound is registered.
NewLimiter ==
    [registered |-> FALSE, deviceLimit |-> 0, bucket |-> FALSE,
     onlineIP |-> [i \in IPs |-> NoTime]]

\* The Limiter once the controller has registered LimitedUser under
\* InboundTag (AddInboundLimiter), nobody being online yet.
RegisteredLimiters ==
    [registered : {TRUE}, deviceLimit : 0..MaxDeviceLimit, bucket : BOOLEAN,
     onlineIP : {[i \in IPs |-> NoTime]}]

Online(lim) == {i \in IPs : lim.onlineIP[i] # NoTime}

\* Limiter.GetUserBucket(tag, email, ip) at time t:
\* [limiter, ok, reject], bucket being non-nil exactly when ok.
GetUserBucket(lim, t, tag, email, ip) ==
    IF ~(lim.registered /\ tag = InboundTag /\ email = LimitedUser)
    THEN [limiter |-> lim, ok |-> FALSE, reject |-> FALSE]
    ELSE LET isNew == lim.onlineIP[ip] = NoTime
             touched == [lim.onlineIP EXCEPT ![ip] = t]
             evicted == [i \in IPs |->
                            IF touched[i] # NoTime /\ t - touched[i] > IdleTTL
                            THEN NoTime ELSE touched[i]]
             lim2 == [lim EXCEPT !.onlineIP = evicted]
         IN  IF /\ lim.deviceLimit > 0
                /\ Cardinality(Online(lim2)) > lim.deviceLimit
                /\ isNew
             THEN [limiter |-> lim2, ok |-> FALSE, reject |-> TRUE]
             ELSE [limiter |-> lim2, ok |-> lim.bucket, reject |-> FALSE]

----------------------------------------------------------------------------
(* Links *)

\* Before pipe.New: no pipe.
NoUplink ==
    [built |-> FALSE, data |-> <<>>, writerClosed |-> FALSE,
     readerInterrupted |-> FALSE]
NoDownlink == [built |-> FALSE, writerClosed |-> FALSE, readerInterrupted |-> FALSE]
NoWrappers == [inbound |-> <<>>, outbound |-> <<>>]

TearDown_WritersOnly(pipe, reject) ==
    [pipe EXCEPT !.writerClosed = reject]

\* What getLink does to a pipe on reject (lines 163-169): its writer is
\* closed and its reader interrupted.
TearDown(pipe, reject) ==
    [pipe EXCEPT !.writerClosed = reject, !.readerInterrupted = reject]

\* DefaultDispatcher.getLink: the two pipes, the device limit, the rate and
\* statistics wrappers.  inboundLink = (downlinkReader, uplinkWriter),
\* outboundLink = (uplinkReader, downlinkWriter).  pol is d.policy.ForLevel.
getLink(lim, t, inb, pol) ==
    LET limited == inb.User # NoValue /\ inb.User # ""
        b == IF limited
             THEN GetUserBucket(lim, t, inb.Tag, inb.User, inb.Source)
             ELSE [limiter |-> lim, ok |-> FALSE, reject |-> FALSE]
        rate == IF b.ok THEN <<"rate">> ELSE <<>>
        up == IF limited /\ pol.UserUplink THEN <<"stat">> ELSE <<>>
        down == IF limited /\ pol.UserDownlink THEN <<"stat">> ELSE <<>>
    IN  [limiter |-> b.limiter,
         rejected |-> b.reject,
         uplink |-> TearDown([NoUplink EXCEPT !.built = TRUE], b.reject),
         downlink |-> TearDown([NoDownlink EXCEPT !.built = TRUE], b.reject),
         writers |-> [inbound |-> rate \o up, outbound |-> rate \o down]]

----------------------------------------------------------------------------
(* Sniffing *)

NoResult == [protocol |-> <<>>, domain |-> NoValue]

\* Sniffer.Sniff on the scratch bytes: a TLS hello ("T" then the SNI byte
\* "d"), an HTTP request ("H" ... with the Host byte "d"), more bytes needed
\* (common.ErrNoClue), or no classifier left (errUnknownContent).
Sniff(bytes) ==
    LET hasHost == \E i \in 1..Len(bytes) : bytes[i] = "d"
    IN  IF bytes[1] = "T"
        THEN IF Len(bytes) = 1 THEN [result |-> NoResult, err |-> "noclue"]
             ELSE IF bytes[2] = "d"
                  THEN [result |-> [protocol |-> Str_tls, domain |-> SniffedDomain],
                        err |-> NoValue]
                  ELSE [result |-> NoResult, err |-> "unknown"]
        ELSE IF bytes[1] = "H"
        THEN IF hasHost
             THEN [result |-> [protocol |-> Str_http, domain |-> SniffedDomain],
                   err |-> NoValue]
             ELSE [result |-> NoResult, err |-> "noclue"]
        ELSE [result |-> NoResult, err |-> "unknown"]

\* strings.HasPrefix
HasPrefix(s, p) == Len(p) <= Len(s) /\ SubSeq(s, 1, Len(p)) = p

InList(list, x) == \E i \in 1..Len(list) : list[i] = x

shouldOverride_NoExclude(result, request) ==
    \E i \in 1..Len(request.OverrideDestinationForProtocol) :
        HasPrefix(result.protocol, request.OverrideDestinationForProtocol[i])

\* shouldOverride(result, request)
shouldOverride(result, request) ==
    /\ ~InList(request.ExcludeForDomain, result.domain)
    /\ \E i \in 1..Len(request.OverrideDestinationForProtocol) :
           HasPrefix(result.protocol, request.OverrideDestinationForProtocol[i])

\* pipe.Reader.ReadMultiBufferTimeout as Cache uses it: everything the pipe
\* holds, nothing on a timeout or on an interrupted pipe.
PipeRead(pipe) == IF pipe.readerInterrupted THEN <<>> ELSE pipe.data

Take(s, n) == SubSeq(s, 1, IF Len(s) < n THEN Len(s) ELSE n)

readInternal_Keep(cr) == [mb |-> cr.cache, cache |-> cr.cache]

\* cachedReader.readInternal: the whole cache, once; [mb, cache] after the
\* call (an empty mb is the nil it returns on an empty cache).
readInternal(cr) == [mb |-> cr.cache, cache |-> <<>>]

\* cachedReader.ReadMultiBuffer and ReadMultiBufferTimeout: the cache when
\* readInternal gave one, else what the read of the pipe gives; [mb, cache,
\* data] after the call.
ReadMultiBuffer(cr, pipe) ==
    LET in == readInternal(cr)
    IN  IF in.mb # <<>>
        THEN [mb |-> in.mb, cache |-> in.cache, data |-> pipe.data]
        ELSE [mb |-> PipeRead(pipe), cache |-> cr.cache,
              data |-> IF pipe.readerInterrupted THEN pipe.data ELSE <<>>]

Cache_Drop(cr, mb) ==
    LET cache == IF mb = <<>> THEN cr.cache ELSE mb
    IN  [cache |-> cache, payload |-> Take(cache, BufSize)]

Cache_Prepend(cr, mb) ==
    LET cache == mb \o cr.cache
    IN  [cache |-> cache, payload |-> Take(cache, BufSize)]

\* cachedReader.Cache(b): [cache, payload] after the call, mb being what the
\* pipe gave.
Cache(cr, mb) ==
    LET cache == cr.cache \o mb
    IN  [cache |-> cache, payload |-> Take(cache, BufSize)]

----------------------------------------------------------------------------
(* The dispatcher: state of one connection *)

NoInbound == [Tag |-> "", User |-> NoValue, Source |-> 1]
NoDestination == [Network |-> "unknown", Address |-> ParseAddress("1.2.3.4"),
                  Port |-> 443]
NoRequest == [Enabled |-> FALSE, OverrideDestinationForProtocol |-> <<>>,
              ExcludeForDomain |-> <<>>]
NoReader == [wrapped |-> FALSE, cache |-> <<>>]
NoCalls == [cache |-> 0, sniff |-> 0, ctx |-> 0]
NoSniff == [result |-> NoResult, err |-> "pending"]
NotRouted ==
    [calls |-> 0, destination |-> NoDestination, skipRoutePick |-> FALSE,
     picks |-> 0, route |-> NoValue, byRoute |-> FALSE, handler |-> NoValue,
     handlers |-> 0, ohm |-> [tagged |-> {}, default |-> NoValue],
     accessMessage |-> FALSE,
     Detour |-> NoValue]

\* No link and no task: what a Dispatch that fails leaves behind, and what
\* is left when a connection is over.
Blank(r, inb, dest) ==
    /\ inbound' = inb
    /\ ctxDone' = FALSE
    /\ destination' = dest
    /\ sniffingRequest' = NoRequest
    /\ ret' = r
    /\ uplink' = NoUplink
    /\ downlink' = NoDownlink
    /\ writers' = NoWrappers
    /\ rejected' = FALSE
    /\ taskPc' = "idle"
    /\ tasks' = 0
    /\ cReader' = NoReader
    /\ payload' = <<>>
    /\ totalAttempt' = 0
    /\ calls' = NoCalls
    /\ sniffed' = NoSniff
    /\ target' = NoDestination
    /\ routed' = NotRouted
    /\ written' = <<>>
    /\ delivered' = <<>>

RuleRejects_Never(inb, dest) == FALSE

\* The rule check of Dispatch (line 223).
RuleRejects(inb, dest) == Detect(ruleManager, inb.Tag, dest, inb.User)

TaskEntry_And(dest, req) ==
    IF dest.Network # "tcp" /\ ~req.Enabled THEN "route" ELSE "start"

\* Which task Dispatch starts (lines 240-243): routedDispatch at once, or the
\* sniff task.
TaskEntry(dest, req) ==
    IF dest.Network # "tcp" \/ ~req.Enabled THEN "route" ELSE "start"

\* DefaultDispatcher.Dispatch(ctx, destination), ctx carrying the inbound inb,
\* the sniffing request req; pol is the policy of the user's level.
DispatchCall(dest, inb, req, pol) ==
    IF ~IsValid(dest) \/ inb.User = NoValue
    THEN \* panic("Dispatcher: Invalid destination."), or the nil
         \* dereference of sessionInbound.User on line 223
         /\ Blank("panic", inb, dest)
         /\ UNCHANGED <<ruleManager, limiter>>
    ELSE IF RuleRejects(inb, dest)
    THEN /\ ruleManager.hits < MaxHits
         /\ ruleManager' = DetectHit(ruleManager, inb.Tag, dest, inb.User)
         /\ Blank("error", inb, dest)
         /\ UNCHANGED limiter
    ELSE LET l == getLink(limiter, now, inb, pol)
         IN  /\ limiter' = l.limiter
             /\ rejected' = l.rejected
             /\ uplink' = l.uplink
             /\ downlink' = l.downlink
             /\ writers' = l.writers
             /\ inbound' = inb
             /\ destination' = dest
             /\ sniffingRequest' = req
             /\ ctxDone' = FALSE
             /\ ret' = "link"
             /\ tasks' = 1
             /\ taskPc' = TaskEntry(dest, req)
             /\ target' = dest
             /\ cReader' = NoReader
             /\ payload' = <<>>
             /\ totalAttempt' = 0
             /\ calls' = NoCalls
             /\ sniffed' = NoSniff
             /\ routed' = NotRouted
             /\ written' = <<>>
             /\ delivered' = <<>>
             /\ UNCHANGED ruleManager

\* A connection arrives (one connection at a time).  What only getLink
\* reads (the source address, the statistics policy, an empty email) varies
\* in SpecLink.
Dispatch ==
    /\ taskPc = "idle"
    /\ \E dest \in Destinations, inb \in Inbounds, req \in SniffingRequests :
           /\ inb.Source = 1
           /\ inb.User # ""
           /\ DispatchCall(dest, inb, req, NoStats)
    /\ UNCHANGED <<router, now, limVars, restVars>>

\* The inbound side writes one byte to inboundLink.Writer (the uplink).
Write ==
    /\ ret = "link"
    /\ ~uplink.writerClosed /\ ~uplink.readerInterrupted
    /\ Len(written) < MaxData
    /\ \E b \in Bytes :
           /\ uplink' = [uplink EXCEPT !.data = Append(@, b)]
           /\ written' = Append(written, b)
    /\ UNCHANGED <<sharedVars, limVars, restVars, inbound, ctxDone, destination,
                   sniffingRequest, ret, downlink, writers, rejected, taskPc,
                   tasks, cReader, payload, totalAttempt, calls, sniffed, target,
                   routed, delivered>>

\* The inbound is torn down: the context of the connection is cancelled.
Cancel ==
    /\ ret = "link"
    /\ taskPc \in {"start", "sniff"}
    /\ ~ctxDone
    /\ ctxDone' = TRUE
    /\ UNCHANGED <<sharedVars, limVars, restVars, inbound, destination,
                   sniffingRequest, ret, uplink, downlink, writers, rejected,
                   taskPc, tasks, cReader, payload, totalAttempt, calls, sniffed,
                   target, routed, written, delivered>>

\* The sniff task starts (lines 243-247): the outbound reader is wrapped.
SniffTaskStart ==
    /\ taskPc = "start"
    /\ cReader' = [wrapped |-> TRUE, cache |-> <<>>]
    /\ taskPc' = "sniff"
    /\ UNCHANGED <<sharedVars, limVars, restVars, inbound, ctxDone, destination,
                   sniffingRequest, ret, uplink, downlink, writers, rejected,
                   tasks, payload, totalAttempt, calls, sniffed, target, routed,
                   written, delivered>>

\* sniffer returns (result, err); its payload is released.
SnifferReturn(result, err) ==
    /\ sniffed' = [result |-> result, err |-> err]
    /\ payload' = <<>>
    /\ taskPc' = "sniffed"

AttemptsExhausted_Late(n) == n > 3

\* totalAttempt > 2 (line 276)
AttemptsExhausted(n) == n > 2

\* One iteration of sniffer's loop (lines 270-291).
SnifferAttempt ==
    /\ taskPc = "sniff"
    /\ IF ctxDone
       THEN /\ SnifferReturn(NoResult, "context")
            /\ calls' = [calls EXCEPT !.ctx = @ + 1]
            /\ UNCHANGED <<totalAttempt, cReader, uplink>>
       ELSE /\ totalAttempt' = totalAttempt + 1
            /\ IF AttemptsExhausted(totalAttempt + 1)
               THEN /\ SnifferReturn(NoResult, "timeout")
                    /\ calls' = [calls EXCEPT !.ctx = @ + 1]
                    /\ UNCHANGED <<cReader, uplink>>
               ELSE LET c == Cache(cReader, PipeRead(uplink))
                        s == Sniff(c.payload)
                    IN  /\ cReader' = [cReader EXCEPT !.cache = c.cache]
                        /\ uplink' = [uplink EXCEPT !.data = <<>>]
                        /\ calls' = [cache |-> calls.cache + 1,
                                     sniff |-> calls.sniff
                                               + IF c.payload # <<>> THEN 1 ELSE 0,
                                     ctx |-> calls.ctx + 1]
                        /\ IF c.payload # <<>> /\ s.err # "noclue"
                           THEN SnifferReturn(s.result, s.err)
                           ELSE IF Len(c.payload) = BufSize
                           THEN SnifferReturn(NoResult, "unknown")
                           ELSE /\ payload' = c.payload
                                /\ UNCHANGED <<sniffed, taskPc>>
    /\ UNCHANGED <<sharedVars, limVars, restVars, inbound, ctxDone, destination,
                   sniffingRequest, ret, downlink, writers, rejected, tasks,
                   target, routed, written, delivered>>

\* The task after sniffer (lines 249-257): the destination is overridden.
SniffTaskOverride ==
    /\ taskPc = "sniffed"
    /\ target' = IF sniffed.err = NoValue
                    /\ shouldOverride(sniffed.result, sniffingRequest)
                 THEN [target EXCEPT !.Address = ParseAddress(sniffed.result.domain)]
                 ELSE target
    /\ taskPc' = "route"
    /\ UNCHANGED <<sharedVars, limVars, restVars, inbound, ctxDone, destination,
                   sniffingRequest, ret, uplink, downlink, writers, rejected,
                   tasks, cReader, payload, totalAttempt, calls, sniffed, routed,
                   written, delivered>>

----------------------------------------------------------------------------
(* Routing *)

\* What the outbound manager holds: the tags that have a handler, and the
\* default handler (a handler is named by its tag, NoValue is nil).
Ohms == [tagged : SUBSET {"proxy"}, default : {NoValue, "", "direct"}]

\* What router.PickRoute answers: an error, or a route to this outbound tag.
Routes == {"err", "proxy"}

AskRouter_IgnoreSkip(skipRoutePick) == router

\* d.router != nil && !skipRoutePick (line 305)
AskRouter(skipRoutePick) == router /\ ~skipRoutePick

\* DefaultDispatcher.routedDispatch(ctx, link, destination): what it decides,
\* given skipRoutePick and the access message of ctx, the router's answer and
\* the outbound manager.
routedDispatch(dest, inTag, skipRoutePick, route, ohm, access) ==
    LET asked == AskRouter(skipRoutePick)
        picked == asked /\ route # "err"
        isPickRoute == picked
        byRoute == picked /\ route \in ohm.tagged
        handler == IF byRoute THEN route ELSE ohm.default
        detour ==
            IF ~access THEN NoValue
            ELSE IF handler = NoValue \/ handler = "" THEN ""
            ELSE IF isPickRoute
                 THEN IF inTag # "" THEN inTag \o " -> " \o handler ELSE handler
                 ELSE IF inTag # "" THEN inTag \o " >> " \o handler ELSE handler
    IN  [calls |-> routed.calls + 1,
         destination |-> dest,
         skipRoutePick |-> skipRoutePick,
         picks |-> IF asked THEN 1 ELSE 0,
         route |-> IF asked THEN route ELSE NoValue,
         byRoute |-> byRoute,
         handler |-> handler,
         handlers |-> IF handler = NoValue THEN 0 ELSE 1,
         ohm |-> ohm,
         accessMessage |-> access,
         Detour |-> IF handler = NoValue THEN NoValue ELSE detour]

\* The task calls routedDispatch (line 241 or 258); without a handler the
\* link is closed (lines 324-329), with one the handler owns the link.
RoutedDispatch ==
    /\ taskPc = "route"
    /\ \E skipRoutePick \in BOOLEAN, route \in Routes, ohm \in Ohms,
          access \in BOOLEAN :
           LET r == routedDispatch(target, inbound.Tag, skipRoutePick, route,
                                   ohm, access)
           IN  /\ routed' = r
               /\ IF r.handler = NoValue
                  THEN /\ downlink' = [downlink EXCEPT !.writerClosed = TRUE]
                       /\ uplink' = [uplink EXCEPT !.readerInterrupted = TRUE]
                       /\ cReader' = [cReader EXCEPT !.cache = <<>>]
                  ELSE UNCHANGED <<downlink, uplink, cReader>>
    /\ taskPc' = "done"
    \* the locals of the task are dead from here on
    /\ sniffingRequest' = NoRequest
    /\ sniffed' = NoSniff
    /\ totalAttempt' = 0
    /\ calls' = NoCalls
    /\ UNCHANGED <<sharedVars, limVars, restVars, inbound, ctxDone, destination,
                   ret, writers, rejected, tasks, payload, target, written,
                   delivered>>

\* The outbound handler reads link.Reader: cachedReader.ReadMultiBuffer on the
\* sniff path (the cache once, then the pipe), the pipe itself otherwise.
HandlerRead ==
    /\ routed.handlers > 0
    /\ IF cReader.wrapped /\ cReader.cache # <<>>
       THEN /\ delivered' = delivered \o cReader.cache
            /\ cReader' = [cReader EXCEPT !.cache = <<>>]
            /\ UNCHANGED uplink
       ELSE /\ PipeRead(uplink) # <<>>
            /\ delivered' = delivered \o PipeRead(uplink)
            /\ uplink' = [uplink EXCEPT !.data = <<>>]
            /\ UNCHANGED cReader
    /\ UNCHANGED <<sharedVars, limVars, restVars, inbound, ctxDone, destination,
                   sniffingRequest, ret, downlink, writers, rejected, taskPc,
                   tasks, payload, totalAttempt, calls, sniffed, target, routed,
                   written>>

\* The connection is over once its task has finished: its state is dropped.
ConnectionEnd ==
    /\ taskPc = "done"
    /\ Blank("none", NoInbound, NoDestination)
    /\ UNCHANGED <<sharedVars, limVars, restVars>>

----------------------------------------------------------------------------
(* The controller: values *)

\* api.NodeInfo (the fields that tell these nodes apart): Node1b is Node1 with
\* another speed limit, Node2 listens on another port.
Node1 == [NodeType |-> "V2ray", Port |-> 443, SpeedLimit |-> 0]
Node1b == [NodeType |-> "V2ray", Port |-> 443, SpeedLimit |-> 1]
Node2 == [NodeType |-> "V2ray", Port |-> 444, SpeedLimit |-> 0]
NodeInfos == {Node1, Node1b, Node2}
NoNodeInfo == [NodeType |-> NoValue, Port |-> 0, SpeedLimit |-> 0]

\* fmt.Sprintf("%s_%d", nodeInfo.NodeType, nodeInfo.Port)
TagOf(node) ==
    IF node.Port = 443 THEN node.NodeType \o "_443"
    ELSE IF node.Port = 444 THEN node.NodeType \o "_444"
    ELSE node.NodeType \o "_0"

NodeTags == {TagOf(n) : n \in NodeInfos}

\* A nil *[]api.UserInfo.
NoUserList == <<[UID |-> 0, Email |-> NoValue, DeviceLimit |-> 0]>>

NoPeriodic == "nil"
NewController ==
    [nodeInfo |-> NoNodeInfo, userList |-> NoUserList,
     nodeInfoMonitorPeriodic |-> NoPeriodic, userReportPeriodic |-> NoPeriodic]

NoInboundInfo == [exists |-> FALSE, users |-> {}]
NoHandlers ==
    [inbounds |-> [t \in NodeTags |-> [exists |-> FALSE, users |-> {}]],
     outbounds |-> {}]

NoSnapshot ==
    [nodeInfo |-> NoNodeInfo, userList |-> NoUserList, handlers |-> NoHandlers,
     inboundInfo |-> [t \in NodeTags |-> NoInboundInfo]]

\* No nodeInfoMonitor tick has run.
NoMonitor ==
    [pc |-> "idle", newNodeInfo |-> NoNodeInfo, nodeInfoChanged |-> FALSE,
     oldtag |-> "", newUserInfo |-> NoUserList, calls |-> <<>>,
     logged |-> FALSE, ret |-> "none", start |-> NoSnapshot]

NoRecon == [nodeInfo |-> NoNodeInfo, userList |-> NoUserList]

\* No userInfoMonitor tick has run.
NoReporter ==
    [pc |-> "idle", userList |-> NoUserList, nodeInfo |-> NoNodeInfo,
     atList |-> NoRecon, atNode |-> NoRecon]

NoHistory ==
    [start |-> "none", logged |-> FALSE, close |-> "none", ticks |-> 0,
     fetched |-> NoUserList, recon |-> NoRecon]

----------------------------------------------------------------------------
(* Spec: the dispatcher *)

Rules == [t \in Tags |-> IF t = InboundTag THEN {"ads.example"} ELSE {}]

InitConn ==
    /\ inbound = NoInbound
    /\ ctxDone = FALSE
    /\ destination = NoDestination
    /\ sniffingRequest = NoRequest
    /\ ret = "none"
    /\ uplink = NoUplink
    /\ downlink = NoDownlink
    /\ writers = NoWrappers
    /\ rejected = FALSE
    /\ taskPc = "idle"
    /\ tasks = 0
    /\ cReader = NoReader
    /\ payload = <<>>
    /\ totalAttempt = 0
    /\ calls = NoCalls
    /\ sniffed = NoSniff
    /\ target = NoDestination
    /\ routed = NotRouted
    /\ written = <<>>
    /\ delivered = <<>>

InitLim == admitted = [i \in IPs |-> NoTime]
InitDiff == old = <<>> /\ new = <<>> /\ diff = NoDiff
InitReader == prevPayload = <<>> /\ readerPc = "caching"

\* controller.New (lines 32-39): nothing fetched, no periodic; the engine has
\* no handler of the node and the Limiter no record.
InitCtl ==
    /\ controller = NewController
    /\ handlers = NoHandlers
    /\ inboundInfo = [t \in NodeTags |-> NoInboundInfo]
    /\ monitor = NoMonitor
    /\ reporter = NoReporter
    /\ history = NoHistory

Init ==
    /\ router \in BOOLEAN
    /\ ruleManager = [rules |-> Rules, hits |-> 0]
    /\ limiter = NewLimiter
    /\ now = 0
    /\ InitConn
    /\ InitLim
    /\ InitDiff
    /\ InitReader
    /\ InitCtl

Next ==
    \/ Dispatch
    \/ Write
    \/ Cancel
    \/ SniffTaskStart
    \/ SnifferAttempt
    \/ SniffTaskOverride
    \/ RoutedDispatch
    \/ HandlerRead
    \/ ConnectionEnd

Spec == Init /\ [][Next]_vars

----------------------------------------------------------------------------
(* SpecLink: getLink against a Limiter that knows LimitedUser; connections  *)
(* come from every source, under every statistics policy, without sniffing. *)

DispatchLink ==
    /\ taskPc = "idle"
    /\ \E dest \in Destinations, inb \in Inbounds, pol \in Policies :
           DispatchCall(dest, inb, NoRequest, pol)
    /\ UNCHANGED <<router, now, limVars, restVars>>

InitLink ==
    /\ router = TRUE
    /\ ruleManager = [rules |-> Rules, hits |-> 0]
    /\ limiter \in RegisteredLimiters
    /\ now = 0
    /\ InitConn
    /\ InitLim
    /\ InitDiff
    /\ InitReader
    /\ InitCtl

NextLink ==
    \/ DispatchLink
    \/ RoutedDispatch
    \/ ConnectionEnd

SpecLink == InitLink /\ [][NextLink]_vars

----------------------------------------------------------------------------
(* SpecLimiter: the stream of GetUserBucket calls that the connections of   *)
(* LimitedUser make through getLink, while time passes.                     *)

\* getLink of a connection of LimitedUser from ip (lines 160-169): the
\* Limiter is asked and answers.
GetLinkCall ==
    /\ \E ip \in IPs :
           LET inb == [Tag |-> InboundTag, User |-> LimitedUser, Source |-> ip]
               l == getLink(limiter, now, inb, NoStats)
           IN  /\ limiter' = l.limiter
               /\ inbound' = inb
               /\ rejected' = l.rejected
               /\ admitted' = IF l.rejected THEN admitted
                              ELSE [admitted EXCEPT ![ip] = now]
    /\ UNCHANGED <<router, ruleManager, now, restVars, ctxDone, destination,
                   sniffingRequest, ret, uplink, downlink, writers, taskPc, tasks,
                   cReader, payload, totalAttempt, calls, sniffed, target, routed,
                   written, delivered>>

\* Time passes.
Tick ==
    /\ now < MaxClock
    /\ now' = now + 1
    /\ UNCHANGED <<router, ruleManager, limiter, connVars, limVars, restVars>>

InitLimiter ==
    /\ router = TRUE
    /\ ruleManager = [rules |-> Rules, hits |-> 0]
    /\ limiter \in RegisteredLimiters
    /\ now = 0
    /\ InitConn
    /\ InitLim
    /\ InitDiff
    /\ InitReader
    /\ InitCtl

NextLimiter ==
    \/ GetLinkCall
    \/ Tick

SpecLimiter == InitLimiter /\ [][NextLimiter]_vars

----------------------------------------------------------------------------
(* SpecDiff: compareUserList on bounded user lists *)

\* api.UserInfo records (the fields that tell these users apart); B2 is B
\* with another device limit.
UserA == [UID |-> 1, Email |-> "a@x", DeviceLimit |-> 0]
UserB == [UID |-> 2, Email |-> "b@x", DeviceLimit |-> 0]
UserB2 == [UID |-> 2, Email |-> "b@x", DeviceLimit |-> 1]
UserInfos == {UserA, UserB, UserB2}

UserLists == UNION {[1..n -> UserInfos] : n \in 0..MaxUsers}

Range(f) == {f[i] : i \in 1..Len(f)}

\* Step 2 of compareUserList (lines 265-273) from index i on: an element of
\* new that mall already holds goes to set, any other enters mall.
RECURSIVE Intersect(_, _, _, _)
Intersect(newList, mall, set, i) ==
    IF i > Len(newList) THEN [mall |-> mall, set |-> set]
    ELSE IF newList[i] \in mall
         THEN Intersect(newList, mall, Append(set, newList[i]), i + 1)
         ELSE Intersect(newList, mall \cup {newList[i]}, set, i + 1)

\* compareUserList(old, new): the elements of deleted and of added (the code
\* returns them as slices in map order).
compareUserList(oldList, newList) ==
    LET msrc == Range(oldList)
        step2 == Intersect(newList, Range(oldList), <<>>, 1)
        mall == step2.mall \ Range(step2.set)
    IN  [done |-> TRUE,
         deleted |-> {v \in mall : v \in msrc},
         added |-> {v \in mall : v \notin msrc}]

\* The controller compares its user list with a fetched one.
Compare ==
    /\ ~diff.done
    /\ diff' = compareUserList(old, new)
    /\ UNCHANGED <<sharedVars, connVars, limVars, old, new, readerVars,
                   ctlVars>>

InitCompare ==
    /\ router = TRUE
    /\ ruleManager = [rules |-> Rules, hits |-> 0]
    /\ limiter = NewLimiter
    /\ now = 0
    /\ InitConn
    /\ InitLim
    /\ old \in UserLists
    /\ new \in UserLists
    /\ diff = NoDiff
    /\ InitReader
    /\ InitCtl

NextDiff == Compare

SpecDiff == InitCompare /\ [][NextDiff]_vars

----------------------------------------------------------------------------
(* SpecReader: a cachedReader over a pipe used sequentially, Cache calls    *)
(* first and Read calls after them, while the writer of the pipe emits up   *)
(* to MaxData bytes.                                                        *)

InitReaderSpec ==
    /\ router = TRUE
    /\ ruleManager = [rules |-> Rules, hits |-> 0]
    /\ limiter = NewLimiter
    /\ now = 0
    /\ inbound = NoInbound
    /\ ctxDone = FALSE
    /\ destination = NoDestination
    /\ sniffingRequest = NoRequest
    /\ ret = "none"
    /\ uplink = [NoUplink EXCEPT !.built = TRUE]
    /\ downlink = NoDownlink
    /\ writers = NoWrappers
    /\ rejected = FALSE
    /\ taskPc = "idle"
    /\ tasks = 0
    /\ cReader = [wrapped |-> TRUE, cache |-> <<>>]
    /\ payload = <<>>
    /\ totalAttempt = 0
    /\ calls = NoCalls
    /\ sniffed = NoSniff
    /\ target = NoDestination
    /\ routed = NotRouted
    /\ written = <<>>
    /\ delivered = <<>>
    /\ InitLim
    /\ InitDiff
    /\ InitReader
    /\ InitCtl

readerFrame ==
    <<sharedVars, limVars, diffVars, ctlVars, inbound, ctxDone, destination,
      sniffingRequest, ret, downlink, writers, rejected, taskPc, tasks,
      totalAttempt, calls, sniffed, target, routed>>

\* The underlying reader emits one more byte.
ReaderEmit ==
    /\ Len(written) < MaxData
    /\ \E b \in Bytes :
           /\ uplink' = [uplink EXCEPT !.data = Append(@, b)]
           /\ written' = Append(written, b)
    /\ UNCHANGED <<readerFrame, cReader, payload, delivered, readerVars>>

\* cachedReader.Cache(b), b being the scratch buffer.
ReaderCache ==
    /\ readerPc = "caching"
    /\ LET c == Cache(cReader, PipeRead(uplink))
       IN  /\ cReader' = [cReader EXCEPT !.cache = c.cache]
           /\ payload' = c.payload
    /\ prevPayload' = payload
    /\ uplink' = [uplink EXCEPT !.data = <<>>]
    /\ UNCHANGED <<readerFrame, written, delivered, readerPc>>

\* The read r of the cachedReader returns.
ReaderReturn(r) ==
    /\ delivered' = delivered \o r.mb
    /\ cReader' = [cReader EXCEPT !.cache = r.cache]
    /\ uplink' = [uplink EXCEPT !.data = r.data]
    /\ readerPc' = "reading"
    /\ UNCHANGED <<readerFrame, written, payload, prevPayload>>

\* cachedReader.ReadMultiBuffer(): it blocks while there is nothing to read.
ReaderRead ==
    /\ cReader.cache # <<>> \/ uplink.data # <<>>
    /\ ReaderReturn(ReadMultiBuffer(cReader, uplink))

\* cachedReader.ReadMultiBufferTimeout(timeout): it returns nothing when the
\* pipe stays empty.
ReaderReadTimeout ==
    /\ ReaderReturn(ReadMultiBuffer(cReader, uplink))

NextReader ==
    \/ ReaderEmit
    \/ ReaderCache
    \/ ReaderRead
    \/ ReaderReadTimeout

SpecReader == InitReaderSpec /\ [][NextReader]_vars

----------------------------------------------------------------------------
(* The controller: the engine and the Limiter as the controller drives them *)

UserC == [UID |-> 3, Email |-> "c@x", DeviceLimit |-> 0]
CtlUsers == {UserA, UserB, UserB2, UserC}

\* What GetUserList answers: emails are unique within a node.
FetchedLists ==
    {<<>>, <<UserA, UserB>>, <<UserB, UserC>>, <<UserA, UserB2>>}

EmailsOf(users) == {u.Email : u \in users}

\* c.addInbound / c.removeInbound / c.addOutbound / c.removeOutbound on the
\* engine's handler managers.  The engine refuses a tag it already has and
\* the removal of an inbound it does not have.
CanAddInbound(h, tag) == ~h.inbounds[tag].exists
CanRemoveInbound(h, tag) == h.inbounds[tag].exists
CanAddOutbound(h, tag) == tag \notin h.outbounds

addInbound(h, tag) ==
    [h EXCEPT !.inbounds[tag] = [exists |-> TRUE, users |-> {}]]

removeInbound(h, tag) ==
    [h EXCEPT !.inbounds[tag] = [exists |-> FALSE, users |-> {}]]

addOutbound(h, tag) == [h EXCEPT !.outbounds = @ \cup {tag}]

removeOutbound(h, tag) == [h EXCEPT !.outbounds = @ \ {tag}]

\* c.addUsers(users, tag) / c.removeUsers(emails, tag): the inbound handler
\* of the tag gains or loses the users; without that handler they fail.
CanUpdateUsers(h, tag) == h.inbounds[tag].exists

addUsers(h, tag, users) ==
    [h EXCEPT !.inbounds[tag].users = @ \cup users]

removeUsers(h, tag, emails) ==
    [h EXCEPT !.inbounds[tag].users = {u \in @ : u.Email \notin emails}]

\* Limiter.AddInboundLimiter(tag, speed, users): create or replace the record.
AddInboundLimiter(info, tag, users) ==
    [info EXCEPT ![tag] = [exists |-> TRUE, users |-> users]]

\* Limiter.DeleteInboundLimiter(tag): drop the record.
DeleteInboundLimiter(info, tag) ==
    [info EXCEPT ![tag] = NoInboundInfo]

----------------------------------------------------------------------------
(* The controller: Start and Close *)

StartFailures ==
    {"none", "GetNodeInfo", "addInbound", "addOutbound", "GetUserList",
     "addUsers", "AddInboundLimiter"}

\* Controller.Start, the remote API answering node and users, and the first
\* step that fails being fail.
StartCall(node, users, fail) ==
    LET tag == TagOf(node)
        h1 == IF fail = "addInbound" THEN handlers ELSE addInbound(handlers, tag)
        h2 == IF fail \in {"addInbound", "addOutbound"} THEN h1
              ELSE addOutbound(h1, tag)
        h3 == IF fail = "addUsers" THEN h2 ELSE addUsers(h2, tag, Range(users))
    IN  IF fail = "GetNodeInfo"
        THEN /\ history' = [history EXCEPT !.start = "error"]
             /\ UNCHANGED <<controller, handlers, inboundInfo>>
        ELSE IF fail \in {"addInbound", "addOutbound"}
        THEN \* log.Panic(err)
             /\ handlers' = h2
             /\ history' = [history EXCEPT !.start = "panic"]
             /\ UNCHANGED <<controller, inboundInfo>>
        ELSE IF fail = "GetUserList"
        THEN /\ handlers' = h2
             /\ history' = [history EXCEPT !.start = "error"]
             /\ UNCHANGED <<controller, inboundInfo>>
        ELSE IF fail = "addUsers"
        THEN /\ handlers' = h2
             /\ history' = [history EXCEPT !.start = "error", !.fetched = users]
             /\ UNCHANGED <<controller, inboundInfo>>
        ELSE /\ handlers' = h3
             /\ controller' =
                    [nodeInfo |-> node, userList |-> users,
                     nodeInfoMonitorPeriodic |-> "started",
                     userReportPeriodic |-> "started"]
             /\ inboundInfo' =
                    IF fail = "AddInboundLimiter" THEN inboundInfo
                    ELSE AddInboundLimiter(inboundInfo, tag, Range(users))
             /\ history' =
                    [history EXCEPT !.start = "ok", !.fetched = users,
                                    !.logged = (fail = "AddInboundLimiter"),
                                    !.recon = [nodeInfo |-> node,
                                               userList |-> users]]

Start ==
    /\ history.start = "none"
    /\ history.close = "none"
    /\ \E node \in NodeInfos, users \in FetchedLists, fail \in StartFailures :
           StartCall(node, users, fail)
    /\ UNCHANGED <<sharedVars, connVars, limVars, diffVars, readerVars, monitor,
                   reporter>>

\* A Start in which every step succeeds.
StartOk ==
    /\ history.start = "none"
    /\ \E node \in NodeInfos, users \in FetchedLists :
           StartCall(node, users, "none")
    /\ UNCHANGED <<sharedVars, connVars, limVars, diffVars, readerVars, monitor,
                   reporter>>

CloseGuard2_Always(c) == TRUE

\* The condition that guards c.userReportPeriodic.Close() (line 95).
CloseGuard2(c) == c.nodeInfoMonitorPeriodic # NoPeriodic

\* Controller.Close
Close ==
    /\ history.close = "none"
    /\ LET first == controller.nodeInfoMonitorPeriodic # NoPeriodic
           second == CloseGuard2(controller)
       IN  /\ controller' =
                  [controller EXCEPT
                      !.nodeInfoMonitorPeriodic =
                          IF first THEN "closed" ELSE @,
                      !.userReportPeriodic =
                          IF second /\ @ # NoPeriodic THEN "closed" ELSE @]
           /\ history' =
                  [history EXCEPT
                      !.close =
                          IF second /\ controller.userReportPeriodic = NoPeriodic
                          THEN "panic" ELSE "ok"]
    /\ UNCHANGED <<sharedVars, connVars, limVars, diffVars, readerVars, handlers,
                   inboundInfo, monitor, reporter>>

----------------------------------------------------------------------------
(* The controller: nodeInfoMonitor *)

\* A call the tick issues, as the claims look at it.
CallOf(op, tag, users) ==
    [op |-> op, tag |-> tag, users |-> users, emails |-> EmailsOf(users)]

NodeFailures ==
    {"none", "GetNodeInfo", "removeInbound", "removeOutbound", "addInbound",
     "addOutbound"}

\* nodeInfoMonitor, lines 106-127: the node is fetched and, when it differs
\* from the cached one, the old tag is removed, the new one added and the
\* cached node replaced.
MonitorNode ==
    /\ controller.nodeInfoMonitorPeriodic = "started"
    /\ monitor.pc = "idle"
    /\ history.ticks < MaxTicks
    /\ history' = [history EXCEPT !.ticks = @ + 1]
    /\ \E node \in NodeInfos, fail \in NodeFailures :
           LET oldtag == TagOf(controller.nodeInfo)
               newtag == TagOf(node)
               changed == node # controller.nodeInfo
               m0 == [NoMonitor EXCEPT
                         !.newNodeInfo = node,
                         !.start = [nodeInfo |-> controller.nodeInfo,
                                    userList |-> controller.userList,
                                    handlers |-> handlers,
                                    inboundInfo |-> inboundInfo]]
               ok1 == fail # "removeInbound" /\ CanRemoveInbound(handlers, oldtag)
               h1 == IF ok1 THEN removeInbound(handlers, oldtag) ELSE handlers
               ok2 == ok1 /\ fail # "removeOutbound"
               h2 == IF ok2 THEN removeOutbound(h1, oldtag) ELSE h1
               ok3 == ok2 /\ fail # "addInbound" /\ CanAddInbound(h2, newtag)
               h3 == IF ok3 THEN addInbound(h2, newtag) ELSE h2
               ok4 == ok3 /\ fail # "addOutbound" /\ CanAddOutbound(h3, newtag)
               h4 == IF ok4 THEN addOutbound(h3, newtag) ELSE h3
               failed == IF ~ok1 THEN "removeInbound"
                         ELSE IF ~ok2 THEN "removeOutbound"
                         ELSE IF ~ok3 THEN "addInbound"
                         ELSE "addOutbound"
               log == <<CallOf("GetNodeInfo", "", {}),
                        CallOf("removeInbound", oldtag, {}),
                        CallOf("removeOutbound", oldtag, {}),
                        CallOf("addInbound", newtag, {}),
                        CallOf("addOutbound", newtag, {})>>
           IN  IF fail = "GetNodeInfo"
               THEN /\ monitor' = [NoMonitor EXCEPT !.ret = fail]
                    /\ UNCHANGED <<controller, handlers>>
               ELSE IF ~changed
               THEN /\ fail = "none"
                    /\ monitor' = [m0 EXCEPT !.pc = "users", !.ret = "running",
                                             !.calls = <<CallOf("GetNodeInfo", "", {})>>]
                    /\ UNCHANGED <<controller, handlers>>
               ELSE /\ handlers' = h4
                    /\ IF ok4
                       THEN /\ controller' = [controller EXCEPT !.nodeInfo = node]
                            /\ monitor' = [m0 EXCEPT !.pc = "deleteLimiter",
                                                     !.ret = "running",
                                                     !.nodeInfoChanged = TRUE,
                                                     !.oldtag = oldtag,
                                                     !.calls = log]
                       ELSE /\ monitor' = [NoMonitor EXCEPT !.ret = failed]
                            /\ UNCHANGED controller
    /\ UNCHANGED <<sharedVars, connVars, limVars, diffVars, readerVars,
                   inboundInfo, reporter>>

\* nodeInfoMonitor, lines 128-132: the Limiter record of the old tag goes.
MonitorDeleteLimiter ==
    /\ monitor.pc = "deleteLimiter"
    /\ \E ok \in BOOLEAN :
           LET log == Append(monitor.calls,
                             CallOf("DeleteInboundLimiter", monitor.oldtag, {}))
           IN  IF ok
               THEN /\ inboundInfo' = DeleteInboundLimiter(inboundInfo, monitor.oldtag)
                    /\ monitor' = [monitor EXCEPT !.pc = "users", !.calls = log]
               ELSE /\ monitor' = [NoMonitor EXCEPT !.ret = "DeleteInboundLimiter"]
                    /\ UNCHANGED inboundInfo
    /\ UNCHANGED <<sharedVars, connVars, limVars, diffVars, readerVars,
                   controller, handlers, reporter, history>>

UserFailures == {"GetUserList", "removeUsers", "addUsers", "AddInboundLimiter"}

NewNodeLimiterTag_Old(c) == monitor.oldtag

\* The tag of the Limiter record made after a node change (line 159).
NewNodeLimiterTag(c) == TagOf(c.nodeInfo)

\* nodeInfoMonitor, lines 152-163: after a node change every fetched user is
\* added under the new tag and the Limiter record is created; a failure
\* returns from the tick.
UsersOfNewNode(users, fails) ==
    LET tag == TagOf(monitor.newNodeInfo)
        limTag == NewNodeLimiterTag(controller)
        addOk == "addUsers" \notin fails /\ CanUpdateUsers(handlers, tag)
        limOk == "AddInboundLimiter" \notin fails
        log == monitor.calls
               \o <<CallOf("GetUserList", "", {}),
                    CallOf("addUsers", tag, Range(users))>>
               \o (IF addOk
                   THEN <<CallOf("AddInboundLimiter", limTag, Range(users))>>
                   ELSE <<>>)
    IN  /\ handlers' = IF addOk THEN addUsers(handlers, tag, Range(users))
                       ELSE handlers
        /\ inboundInfo' =
               IF addOk /\ limOk
               THEN AddInboundLimiter(inboundInfo, limTag, Range(users))
               ELSE inboundInfo
        /\ monitor' =
               IF addOk /\ limOk
               THEN [monitor EXCEPT !.newUserInfo = users, !.calls = log,
                                    !.pc = "setList"]
               ELSE [NoMonitor EXCEPT
                        !.ret = IF ~addOk THEN "addUsers"
                                ELSE "AddInboundLimiter"]

\* nodeInfoMonitor, lines 164-189: with the node unchanged the fetched list
\* is compared with the cached one; failures are logged and the tick goes on.
UsersOfSameNode(users, fails) ==
    LET tag == TagOf(controller.nodeInfo)
        d == compareUserList(controller.userList, users)
        update == CanUpdateUsers(handlers, tag)
        delOk == d.deleted # {} /\ "removeUsers" \notin fails /\ update
        addOk == d.added # {} /\ "addUsers" \notin fails /\ update
        limOk == d.added # {} /\ "AddInboundLimiter" \notin fails
        h1 == IF delOk THEN removeUsers(handlers, tag, EmailsOf(d.deleted))
              ELSE handlers
        h2 == IF addOk THEN addUsers(h1, tag, d.added) ELSE h1
        log == monitor.calls
               \o <<CallOf("GetUserList", "", {})>>
               \o (IF d.deleted # {}
                   THEN <<CallOf("removeUsers", tag, d.deleted)>> ELSE <<>>)
               \o (IF d.added # {}
                   THEN <<CallOf("addUsers", tag, d.added),
                          CallOf("AddInboundLimiter", tag, d.added)>>
                   ELSE <<>>)
        logged == \/ d.deleted # {} /\ ~delOk
                  \/ d.added # {} /\ ~(addOk /\ limOk)
    IN  /\ handlers' = h2
        /\ inboundInfo' = IF limOk THEN AddInboundLimiter(inboundInfo, tag, d.added)
                          ELSE inboundInfo
        /\ monitor' = [monitor EXCEPT !.newUserInfo = users, !.calls = log,
                                      !.logged = logged, !.pc = "setList"]

\* nodeInfoMonitor, lines 146-189: the user list is fetched and applied.
MonitorUsers ==
    /\ monitor.pc = "users"
    /\ \E users \in FetchedLists, fails \in SUBSET UserFailures :
           IF "GetUserList" \in fails
           THEN /\ monitor' = [NoMonitor EXCEPT !.ret = "GetUserList"]
                /\ UNCHANGED <<handlers, inboundInfo, history>>
           ELSE /\ history' = [history EXCEPT !.fetched = users]
                /\ IF monitor.nodeInfoChanged
                   THEN UsersOfNewNode(users, fails)
                   ELSE UsersOfSameNode(users, fails)
    /\ UNCHANGED <<sharedVars, connVars, limVars, diffVars, readerVars,
                   controller, reporter>>

\* nodeInfoMonitor, line 190: c.userList = newUserInfo, and the tick returns.
MonitorSetList ==
    /\ monitor.pc = "setList"
    /\ controller' = [controller EXCEPT !.userList = monitor.newUserInfo]
    /\ monitor' = [NoMonitor EXCEPT !.ret = "ok"]
    /\ history' = [history EXCEPT
                      !.recon = [nodeInfo |-> controller.nodeInfo,
                                 userList |-> monitor.newUserInfo]]
    /\ UNCHANGED <<sharedVars, connVars, limVars, diffVars, readerVars,
                   handlers, inboundInfo, reporter>>

----------------------------------------------------------------------------
(* The controller: userInfoMonitor *)

\* userInfoMonitor, lines 293-324: the traffic of every cached user.
ReportReadList ==
    /\ controller.userReportPeriodic = "started"
    /\ reporter.pc = "idle"
    /\ reporter' = [NoReporter EXCEPT !.pc = "node",
                                      !.userList = controller.userList,
                                      !.atList = history.recon]
    /\ UNCHANGED <<sharedVars, connVars, limVars, diffVars, readerVars,
                   controller, handlers, inboundInfo, monitor, history>>

\* userInfoMonitor, line 327: the tag of the cached node.
ReportReadNode ==
    /\ reporter.pc = "node"
    /\ reporter' = [reporter EXCEPT !.pc = "online",
                                    !.nodeInfo = controller.nodeInfo,
                                    !.atNode = history.recon]
    /\ UNCHANGED <<sharedVars, connVars, limVars, diffVars, readerVars,
                   controller, handlers, inboundInfo, monitor, history>>

\* userInfoMonitor, lines 328-338: GetOnlineDevice(tag) and the report.
ReportOnline ==
    /\ reporter.pc = "online"
    /\ reporter' = NoReporter
    /\ UNCHANGED <<sharedVars, connVars, limVars, diffVars, readerVars,
                   controller, handlers, inboundInfo, monitor, history>>

----------------------------------------------------------------------------
(* SpecCtl: the controller from New on through Start, nodeInfoMonitor ticks *)
(* and Close, the remote API answering any node and any user list, any step *)
(* failing.                                                                 *)

InitController ==
    /\ router = TRUE
    /\ ruleManager = [rules |-> Rules, hits |-> 0]
    /\ limiter = NewLimiter
    /\ now = 0
    /\ InitConn
    /\ InitLim
    /\ InitDiff
    /\ InitReader
    /\ InitCtl

NextCtl ==
    \/ Start
    \/ Close
    \/ MonitorNode
    \/ MonitorDeleteLimiter
    \/ MonitorUsers
    \/ MonitorSetList

SpecCtl == InitController /\ [][NextCtl]_vars

----------------------------------------------------------------------------
(* SpecOverlap: the two periodic tasks side by side, userInfoMonitor ticks  *)
(* running while nodeInfoMonitor ticks do.                                  *)

NextOverlap ==
    \/ StartOk
    \/ MonitorNode
    \/ MonitorDeleteLimiter
    \/ MonitorUsers
    \/ MonitorSetList
    \/ ReportReadList
    \/ ReportReadNode
    \/ ReportOnline

SpecOverlap == InitController /\ [][NextOverlap]_vars

----------------------------------------------------------------------------
(* Claims about the dispatcher *)

IsPrefix(s, t) == Len(s) <= Len(t) /\ SubSeq(t, 1, Len(s)) = s

\* The last Dispatch call had a valid destination and a resolved user.
ValidCall == ret # "none" /\ IsValid(destination) /\ inbound.User # NoValue

C2_Bounds ==
    /\ calls.cache <= 2
    /\ calls.sniff <= calls.cache
    /\ totalAttempt <= 3
    /\ calls.cache <= totalAttempt
    /\ totalAttempt <= calls.ctx
    /\ taskPc = "sniff" => totalAttempt <= 2 /\ ENABLED SnifferAttempt
    /\ taskPc = "sniffed" =>
           \/ sniffed.err = NoValue /\ sniffed.result # NoResult
           \/ sniffed.err \in {"context", "timeout", "unknown"}
              /\ sniffed.result = NoResult

C2_SniffLoopTerminates ==
    /\ []C2_Bounds
    /\ [][taskPc = "sniff" /\ (taskPc' # taskPc \/ totalAttempt' # totalAttempt)
              => \/ taskPc' = "sniffed"
                 \/ taskPc' = "sniff" /\ totalAttempt' = totalAttempt + 1]_vars

C2_Witness ==
    /\ taskPc = "sniffed"
    /\ sniffed.err = "timeout"
    /\ calls.cache = 2
    /\ calls.sniff = 1

\* C3: a Dispatch call that returns a link starts exactly one background
\* task, which calls routedDispatch exactly once: at once when the network is
\* not TCP or sniffing is disabled, else after the sniff loop has ended,
\* whatever its outcome; Dispatch returns before that call.
SniffPath == destination.Network = "tcp" /\ sniffingRequest.Enabled

C3_OneTaskOneRoutedDispatch ==
    /\ tasks = IF ret = "link" THEN 1 ELSE 0
    /\ ret # "link" => taskPc = "idle" /\ routed.calls = 0
    /\ ret = "link" =>
           /\ taskPc \in {"start", "sniff", "sniffed", "route", "done"}
           /\ routed.calls = IF taskPc = "done" THEN 1 ELSE 0
           /\ taskPc \in {"start", "sniff", "sniffed"} => SniffPath
           /\ taskPc = "route" /\ ~SniffPath =>
                  calls.cache = 0 /\ sniffed = NoSniff /\ ~cReader.wrapped
           /\ taskPc = "route" /\ SniffPath =>
                  sniffed.err \in {NoValue, "context", "timeout", "unknown"}
           /\ taskPc = "sniffed" => ENABLED SniffTaskOverride
           /\ taskPc = "route" => ENABLED RoutedDispatch

C3_Witness ==
    /\ ret = "link"
    /\ cReader.wrapped
    /\ routed.calls = 1
    /\ tasks = 1

\* C4: every Cache call of the sniff loop comes before the first read of the
\* outbound handler, and the handler receives the bytes in the order they
\* were written: what Cache pulled is delivered before what is read later.
C4_CacheBeforeRead ==
    /\ taskPc \in {"start", "sniff", "sniffed", "route"} =>
           routed.handlers = 0 /\ delivered = <<>>
    /\ ~(ENABLED SnifferAttempt /\ ENABLED HandlerRead)
    /\ IsPrefix(delivered, written)
    /\ uplink.built /\ ~uplink.readerInterrupted =>
           written = delivered \o cReader.cache \o uplink.data

C4_Witness ==
    /\ cReader.wrapped
    /\ Len(delivered) = 2
    /\ delivered[1] = "T"
    /\ delivered[2] = "d"

\* C5: routedDispatch receives the destination with its address replaced by
\* the sniffed domain exactly when the network is TCP, sniffing is enabled,
\* the sniff loop returned a result without error, the request's
\* OverrideDestinationForProtocol holds a prefix of the result's protocol and
\* the domain is not in ExcludeForDomain; otherwise it receives the original
\* destination; port and network never change.
OverrideExpected ==
    /\ destination.Network = "tcp"
    /\ sniffingRequest.Enabled
    /\ sniffed.err = NoValue
    /\ \E i \in 1..Len(sniffingRequest.OverrideDestinationForProtocol) :
           HasPrefix(sniffed.result.protocol,
                     sniffingRequest.OverrideDestinationForProtocol[i])
    /\ ~\E i \in 1..Len(sniffingRequest.ExcludeForDomain) :
           sniffingRequest.ExcludeForDomain[i] = sniffed.result.domain

C5_OverrideIff ==
    /\ taskPc = "route" =>
           target = IF OverrideExpected
                    THEN [Network |-> destination.Network,
                          Address |-> [family |-> "domain",
                                       value |-> sniffed.result.domain],
                          Port |-> destination.Port]
                    ELSE destination
    /\ routed.calls > 0 =>
           /\ routed.destination = target
           /\ target.Port = destination.Port
           /\ target.Network = destination.Network

C5_Witness ==
    /\ taskPc = "route"
    /\ OverrideExpected
    /\ target.Address.value = SniffedDomain
    /\ destination.Address.value # SniffedDomain

\* C8: routedDispatch either hands the link to exactly one handler (the one
\* of the router's tag when a router exists, skipRoutePick is not set,
\* PickRoute succeeds and the tag has a handler, the default handler
\* otherwise), or, when there is no such handler and no default one, closes
\* the link's writer, interrupts its reader and calls no handler; with
\* skipRoutePick set the router is not consulted.
RouteHandlerExpected ==
    /\ router
    /\ ~routed.skipRoutePick
    /\ routed.route \notin {"err", NoValue}
    /\ routed.route \in routed.ohm.tagged

C8_ExactlyOneOutcome ==
    routed.calls > 0 =>
        LET expected == IF RouteHandlerExpected THEN routed.route
                        ELSE routed.ohm.default
        IN  /\ routed.handler = expected
            /\ expected # NoValue =>
                   /\ routed.handlers = 1
                   /\ downlink.writerClosed = rejected
                   /\ uplink.readerInterrupted = rejected
            /\ expected = NoValue =>
                   /\ routed.handlers = 0
                   /\ downlink.writerClosed
                   /\ uplink.readerInterrupted
            /\ routed.skipRoutePick \/ ~router => routed.picks = 0
            /\ routed.picks <= 1

C8_Witness ==
    /\ routed.calls > 0
    /\ router
    /\ routed.picks = 1
    /\ routed.route = "proxy"
    /\ routed.ohm.tagged = {}
    /\ routed.handler = "direct"

C8_WitnessClosed ==
    /\ routed.calls > 0
    /\ routed.handlers = 0
    /\ downlink.writerClosed

\* C9: with a handler of non-empty tag and an access message, Detour is
\* inTag -> outTag exactly when the handler was selected through the
\* router's route, inTag >> outTag when it is the fallback/default handler
\* (router absent, route pick skipped or failed, or no handler for the
\* route's tag), and just outTag when inTag is empty.
C9_DetourEncodesDecision ==
    routed.calls > 0 /\ routed.accessMessage /\ routed.handler \notin {NoValue, ""}
        => routed.Detour =
               IF inbound.Tag = "" THEN routed.handler
               ELSE IF RouteHandlerExpected
                    THEN inbound.Tag \o " -> " \o routed.handler
                    ELSE inbound.Tag \o " >> " \o routed.handler

----------------------------------------------------------------------------
(* Claims about getLink and the Limiter *)

\* C6: when GetUserBucket answers reject for a non-anonymous user, getLink
\* has closed both link writers and interrupted both link readers by the
\* time Dispatch returns, so before a handler can get the link, and Dispatch
\* returns the link without an error.
C6_RejectTearsDownLink ==
    /\ rejected =>
           /\ inbound.User \notin {NoValue, ""}
           /\ ret = "link"
           /\ uplink.built /\ downlink.built
           /\ uplink.writerClosed /\ downlink.writerClosed
           /\ uplink.readerInterrupted /\ downlink.readerInterrupted
           /\ writers.inbound # <<"rate">> /\ writers.outbound # <<"rate">>
    /\ ret = "link" /\ taskPc = "route" /\ ~rejected =>
           /\ ~uplink.writerClosed /\ ~downlink.writerClosed
           /\ ~uplink.readerInterrupted /\ ~downlink.readerInterrupted

C6_Witness ==
    /\ rejected
    /\ ret = "link"
    /\ routed.handlers = 1
    /\ uplink.writerClosed /\ downlink.readerInterrupted

\* C7: for calls made within the idle TTL for a user with deviceLimit = n,
\* the distinct IPs answered reject=false number at most n when n > 0, and
\* nothing is rejected when n = 0, also when a rejected IP calls again.
AdmittedWithinTTL == {i \in IPs : admitted[i] # NoTime /\ now - admitted[i] <= IdleTTL}

C7_DeviceLimitHolds ==
    /\ limiter.deviceLimit > 0 =>
           Cardinality(AdmittedWithinTTL) <= limiter.deviceLimit
    /\ limiter.deviceLimit = 0 => ~rejected

----------------------------------------------------------------------------
(* Claims about the user diff *)

\* C10: for every old and new list, repeated records included,
\* compareUserList returns (deleted, added) with old \cup added =
\* new \cup deleted, added \cap old = {} and deleted \cap new = {}.
C10_DiffLaw ==
    diff.done =>
        /\ Range(old) \cup diff.added = Range(new) \cup diff.deleted
        /\ diff.added \cap Range(old) = {}
        /\ diff.deleted \cap Range(new) = {}

----------------------------------------------------------------------------
(* Claims about the cachedReader *)

\* Every byte emitted so far has been returned by a Read.
Drained ==
    /\ readerPc = "reading"
    /\ cReader.cache = <<>>
    /\ uplink.data = <<>>

\* C17 as stated: what Cache observed followed by what the Reads returned is
\* the emitted sequence.
C17_RoundTripAsStated == Drained => payload \o delivered = written

\* C17: once the Reads have drained the reader, the Reads alone have
\* returned the emitted sequence, and what Cache observed is a prefix of it
\* (the bytes Cache shows are returned again by the first Read).
C17_ReadsReturnStream ==
    Drained => delivered = written /\ IsPrefix(payload, delivered)

\* Two bytes were cached, observed and then read.
C17_Witness ==
    /\ Drained
    /\ Len(payload) = 2
    /\ delivered = written

\* C20: at every point of a sequential use the Reads have returned a prefix
\* of the emitted bytes and the rest is, in order, in the cache and in the
\* pipe (nothing lost, duplicated or reordered, nothing consumed by Cache);
\* the cache is empty once a Read has been made; the scratch buffer holds
\* the first bytes of the cache, a prefix of the stream that extends what
\* the previous Cache call showed.
C20_SequentialReads ==
    /\ IsPrefix(delivered, written)
    /\ written = delivered \o cReader.cache \o uplink.data
    /\ readerPc = "caching" =>
           /\ delivered = <<>>
           /\ payload = Take(cReader.cache, BufSize)
    /\ readerPc = "reading" => cReader.cache = <<>>
    /\ IsPrefix(prevPayload, payload)
    /\ IsPrefix(payload, written)

\* Cache ran twice over one emitted byte, then a Read returned the cache and
\* a later Read a byte that came from the pipe.
C20_Witness ==
    /\ readerPc = "reading"
    /\ Len(prevPayload) = 1
    /\ Len(payload) = 1
    /\ Len(delivered) = 2
    /\ delivered = written

----------------------------------------------------------------------------
(* Claims about the controller *)

CallsOf(op) == {i \in 1..Len(monitor.calls) : monitor.calls[i].op = op}
LimiterOps == {"AddInboundLimiter", "DeleteInboundLimiter", "UpdateInboundLimiter"}

\* The tick has made all its calls on the diff path (line 190 is next).
DiffDone == monitor.pc = "setList" /\ ~monitor.nodeInfoChanged

\* C11: on a tick with the node unchanged the controller issues at most one
\* removeUsers call, with exactly the emails of the users in old but not in
\* new, at most one addUsers call, with exactly the users in new but not in
\* old, and updates the Limiter for these deleted and added sets; a user
\* present in both lists sees no remove, no add and no Limiter change.
C11_DiffCalls ==
    DiffDone =>
        LET tag == TagOf(controller.nodeInfo)
            oldS == Range(controller.userList)
            newS == Range(monitor.newUserInfo)
            deleted == oldS \ newS
            added == newS \ oldS
            before == monitor.start
        IN  /\ Cardinality(CallsOf("removeUsers")) = IF deleted = {} THEN 0 ELSE 1
            /\ \A i \in CallsOf("removeUsers") :
                   monitor.calls[i].emails = EmailsOf(deleted)
            /\ Cardinality(CallsOf("addUsers")) = IF added = {} THEN 0 ELSE 1
            /\ \A i \in CallsOf("addUsers") : monitor.calls[i].users = added
            /\ deleted # {} =>
                   \E i \in 1..Len(monitor.calls) :
                       /\ monitor.calls[i].op \in LimiterOps
                       /\ deleted \subseteq monitor.calls[i].users
            /\ added # {} =>
                   \E i \in 1..Len(monitor.calls) :
                       /\ monitor.calls[i].op \in LimiterOps
                       /\ added \subseteq monitor.calls[i].users
            /\ \A u \in oldS \cap newS :
                   /\ (u \in handlers.inbounds[tag].users)
                          = (u \in before.handlers.inbounds[tag].users)
                   /\ (u \in inboundInfo[tag].users)
                          = (u \in before.inboundInfo[tag].users)

\* A step in which a tick returns because GetNodeInfo or GetUserList failed.
ApiFailureStep ==
    /\ monitor'.pc = "idle"
    /\ monitor'.ret \in {"GetNodeInfo", "GetUserList"}
    /\ history'.ticks # history.ticks \/ monitor.pc = "users"

\* C12: when GetNodeInfo or GetUserList fails during a tick, the tick returns
\* with the cached nodeInfo and userList, the inbound and outbound tags, the
\* users of the inbound and the Limiter records as they were when it began.
C12_ApiFailureLeavesState ==
    [][ApiFailureStep =>
           LET before == IF monitor.pc = "users" THEN monitor.start
                         ELSE [nodeInfo |-> controller.nodeInfo,
                               userList |-> controller.userList,
                               handlers |-> handlers,
                               inboundInfo |-> inboundInfo]
           IN  /\ controller'.nodeInfo = before.nodeInfo
               /\ controller'.userList = before.userList
               /\ handlers' = before.handlers
               /\ inboundInfo' = before.inboundInfo]_vars

\* C13: after a Start without any failure and whatever failed in the ticks
\* since, a tick whose fetches and steps all succeed ends with an inbound and
\* an outbound of the fetched node's tag, exactly the fetched users on that
\* inbound and a Limiter record of the tag.
C13_NextGoodTickRepairs ==
    monitor.pc = "setList" /\ ~monitor.logged /\ ~history.logged =>
        LET tag == TagOf(monitor.newNodeInfo)
        IN  /\ handlers.inbounds[tag].exists
            /\ tag \in handlers.outbounds
            /\ handlers.inbounds[tag].users = Range(monitor.newUserInfo)
            /\ inboundInfo[tag].exists

\* Start has returned nil and no tick is running.
AtRest == history.start = "ok" /\ monitor.pc = "idle"

\* C14: at the end of Start and of every tick, failed ticks included, an
\* inbound of tag T exists iff an outbound of tag T exists, and the only tag
\* the controller may own is the tag of its cached nodeInfo.
C14_TagsInPairs ==
    AtRest =>
        \A t \in NodeTags :
            /\ handlers.inbounds[t].exists <=> t \in handlers.outbounds
            /\ handlers.inbounds[t].exists => t = TagOf(controller.nodeInfo)

\* C15: after Start and after every tick the cached userList is the list that
\* the most recent successful GetUserList returned, whatever the later steps
\* of that tick did.
C15_UserListIsLastFetched ==
    AtRest => controller.userList = history.fetched

\* userInfoMonitor has read the cached list and the cached node and is about
\* to call GetOnlineDevice (line 328).
ReporterAtOnline == reporter.pc = "online"

\* C16: when userInfoMonitor overlaps a nodeInfoMonitor tick, the cached
\* nodeInfo and userList it has read are those of one completed
\* reconciliation (the one current at either read), and the Limiter holds a
\* record for the tag it passes to GetOnlineDevice.
C16_OverlapIsSafe ==
    ReporterAtOnline =>
        /\ [nodeInfo |-> reporter.nodeInfo, userList |-> reporter.userList]
               \in {reporter.atList, reporter.atNode}
        /\ inboundInfo[TagOf(reporter.nodeInfo)].exists

ChangeDone == monitor.pc = "setList" /\ monitor.nodeInfoChanged

----------------------------------------------------------------------------
(* Claims about the anonymous inbound *)

\* Dispatch has been called with a valid destination for an inbound session
\* that carries no user.
AnonymousCall ==
    ret # "none" /\ IsValid(destination) /\ inbound.User = NoValue

\* C21: a Dispatch call for an inbound without user and a valid destination
\* is neither rejected by rule nor failing: it returns the inbound link, and
\* getLink applied no device cap, no rate limit and no per-user counter.
C21_AnonymousNeverFails ==
    AnonymousCall =>
        /\ ret = "link"
        /\ uplink.built /\ downlink.built
        /\ ~rejected
        /\ writers = NoWrappers

====
